---- MODULE Spec2Model ----
(***************************************************************************)
(* Model of src/src/App.js: the hospital locator component.                *)
(*                                                                         *)
(* The component's state is the React state of App (map, center,           *)
(* hospitals, nearestHospital, selectedHospital, routePath, info), the     *)
(* requests in flight at the three external collaborators (geolocation,    *)
(* PlacesService.nearbySearch, DirectionsService.route), the run of the    *)
(* search effect that React still owes, and a record of the requests       *)
(* issued so far.  One action stands for one callback run to completion on *)
(* the single UI thread, with the render its state changes cause.          *)
(*                                                                         *)
(* Numbers.  JavaScript computes the haversine distance in IEEE 754        *)
(* doubles.  Here a double is a sign, a 53-bit significand and an exponent;*)
(* +, -, *, / and Math.sqrt round to nearest, ties to even, as IEEE 754    *)
(* prescribes, and Math.sin, Math.cos and Math.atan2 are evaluated step by *)
(* step as V8 evaluates them (its port of fdlibm).  Coordinates are held   *)
(* as integers, in millionths of a degree: n stands for the double nearest *)
(* to n / 10^6, the value of the decimal literal.                          *)
(***************************************************************************)
EXTENDS Integers, Sequences, FiniteSets, TLC

----------------------------------------------------------------------------
(* Natural numbers of any size: little-endian sequences of limbs below     *)
(* Base, without a leading zero limb; zero is the empty sequence.          *)

\* bits per limb
LimbBits == 2 * 7

Base == 2 ^ LimbBits

Limb(x, i) == IF i <= Len(x) THEN x[i] ELSE 0

RECURSIVE Trim(_)
Trim(x) ==
    IF x # <<>> /\ x[Len(x)] = 0 THEN Trim(SubSeq(x, 1, Len(x) - 1)) ELSE x

RECURSIVE FromNat(_)
FromNat(n) == IF n = 0 THEN <<>> ELSE <<n % Base>> \o FromNat(n \div Base)

RECURSIVE ToNatFrom(_, _)
ToNatFrom(x, i) == IF i > Len(x) THEN 0 ELSE x[i] + Base * ToNatFrom(x, i + 1)

\* the value of x, for x below 2^31
ToNat(x) == ToNatFrom(x, 1)

RECURSIVE AddFrom(_, _, _, _)
AddFrom(x, y, i, carry) ==
    IF i > Len(x) /\ i > Len(y)
    THEN IF carry = 0 THEN <<>> ELSE <<carry>>
    ELSE LET s == Limb(x, i) + Limb(y, i) + carry
         IN  <<s % Base>> \o AddFrom(x, y, i + 1, s \div Base)

BigAdd(x, y) == AddFrom(x, y, 1, 0)

RECURSIVE SubFrom(_, _, _, _)
SubFrom(x, y, i, borrow) ==
    IF i > Len(x) THEN <<>>
    ELSE LET d == x[i] - Limb(y, i) - borrow
         IN  <<d % Base>> \o SubFrom(x, y, i + 1, IF d < 0 THEN 1 ELSE 0)

\* x - y, for x >= y
BigSub(x, y) == Trim(SubFrom(x, y, 1, 0))

RECURSIVE CmpFrom(_, _, _)
CmpFrom(x, y, i) ==
    IF i = 0 THEN 0
    ELSE IF x[i] < y[i] THEN -1
    ELSE IF x[i] > y[i] THEN 1
    ELSE CmpFrom(x, y, i - 1)

\* -1, 0 or 1 as x is below, equal to or above y
BigCmp(x, y) ==
    IF Len(x) < Len(y) THEN -1
    ELSE IF Len(x) > Len(y) THEN 1
    ELSE CmpFrom(x, y, Len(x))

RECURSIVE MulSmallFrom(_, _, _, _)
MulSmallFrom(x, d, i, carry) ==
    IF i > Len(x)
    THEN IF carry = 0 THEN <<>> ELSE <<carry>>
    ELSE LET p == x[i] * d + carry
         IN  <<p % Base>> \o MulSmallFrom(x, d, i + 1, p \div Base)

\* x * d, for 0 < d < Base
MulSmall(x, d) == MulSmallFrom(x, d, 1, 0)

\* x * Base^n
ShiftLimbs(x, n) == IF x = <<>> THEN x ELSE [i \in 1..n |-> 0] \o x

RECURSIVE MulFrom(_, _, _)
MulFrom(x, y, j) ==
    IF j > Len(y) THEN <<>>
    ELSE LET rest == MulFrom(x, y, j + 1)
         IN  IF y[j] = 0 THEN rest
             ELSE BigAdd(ShiftLimbs(MulSmall(x, y[j]), j - 1), rest)

BigMul(x, y) == MulFrom(x, y, 1)

RECURSIVE DivSmallFrom(_, _, _, _)
DivSmallFrom(x, d, i, rem) ==
    IF i = 0 THEN <<>>
    ELSE LET n == rem * Base + x[i]
         IN  DivSmallFrom(x, d, i - 1, n % d) \o <<n \div d>>

\* x * 2^k
Shl(x, k) == ShiftLimbs(MulSmall(x, 2 ^ (k % LimbBits)), k \div LimbBits)

\* x \div 2^k
Shr(x, k) ==
    LET n == k \div LimbBits
    IN  IF n >= Len(x) THEN <<>>
        ELSE LET top == SubSeq(x, n + 1, Len(x))
             IN  Trim(DivSmallFrom(top, 2 ^ (k % LimbBits), Len(top), 0))

RECURSIVE SmallBitLen(_)
SmallBitLen(n) == IF n = 0 THEN 0 ELSE 1 + SmallBitLen(n \div 2)

\* the number of bits of x
BitLen(x) ==
    IF x = <<>> THEN 0
    ELSE LimbBits * (Len(x) - 1) + SmallBitLen(x[Len(x)])

RECURSIVE DivBits(_, _, _)
\* the next k bits of the quotient of r by d, as a number, for r < d
DivBits(r, d, k) ==
    IF k = 0 THEN [quot |-> 0, rem |-> r]
    ELSE LET r2 == BigAdd(r, r)
             bit == BigCmp(r2, d) >= 0
             rest == DivBits(IF bit THEN BigSub(r2, d) ELSE r2, d, k - 1)
         IN  [quot |-> (IF bit THEN 2 ^ (k - 1) ELSE 0) + rest.quot,
              rem |-> rest.rem]

RECURSIVE DivLimbs(_, _, _)
\* the next n limbs of the quotient of r by d, for r < d
DivLimbs(r, d, n) ==
    IF n = 0 THEN [quot |-> <<>>, rem |-> r]
    ELSE LET high == DivBits(r, d, LimbBits)
             low == DivLimbs(high.rem, d, n - 1)
         IN  [quot |-> low.quot \o <<high.quot>>, rem |-> low.rem]

\* quotient and remainder of x * Base^n by d, for d <= x < 2 * d
DivShifted(x, d, n) ==
    LET q == DivLimbs(BigSub(x, d), d, n)
    IN  [quot |-> q.quot \o <<1>>, rem |-> q.rem]

RECURSIVE SqrtSteps(_, _, _)
\* the integer square root, digit by digit; bit is a power of 4 or zero
SqrtSteps(n, res, bit) ==
    IF bit = <<>> THEN [root |-> res, rem |-> n]
    ELSE LET t == BigAdd(res, bit)
         IN  IF BigCmp(n, t) >= 0
             THEN SqrtSteps(BigSub(n, t), BigAdd(Shr(res, 1), bit), Shr(bit, 2))
             ELSE SqrtSteps(n, Shr(res, 1), Shr(bit, 2))

\* the largest r with r * r <= n, and n - r * r
BigSqrt(n) ==
    SqrtSteps(n, <<>>, Shl(<<1>>, 2 * ((BitLen(n) - 1) \div 2)))

----------------------------------------------------------------------------
(* JavaScript numbers: IEEE 754 doubles.  A finite number is                *)
(* (-1)^sign * man * 2^exp with man of exactly ManBits bits, or zero with  *)
(* man = <<>>; every operation rounds to nearest, ties to even.  The       *)
(* numbers of calculateDistance stay far from overflow and underflow.      *)

\* bits of the significand of a double
ManBits == 53

\* exp of the number whose biased exponent field is 0
ExpBias == 1023 + 52

Num(sign, exp, man) == [kind |-> "num", sign |-> sign, exp |-> exp, man |-> man]

Zero(sign) == Num(sign, 0, <<>>)

NaN == [kind |-> "nan", sign |-> 0, exp |-> 0, man |-> <<>>]

\* Infinity
Infinity == [kind |-> "inf", sign |-> 0, exp |-> 0, man |-> <<>>]

IsNum(x) == x.kind = "num"

\* the double nearest to (-1)^sign * (m + f) * 2^exp, where 0 <= f < 1 and
\* sticky tells whether f > 0
Round(sign, exp, m, sticky) ==
    LET len == BitLen(m)
    IN  IF m = <<>> THEN Zero(sign)
        ELSE IF len <= ManBits
        THEN Num(sign, exp - (ManBits - len), Shl(m, ManBits - len))
        ELSE LET k == len - ManBits
                 q == Shr(m, k)
                 c == BigCmp(BigSub(m, Shl(q, k)), Shl(<<1>>, k - 1))
                 up == c > 0 \/ (c = 0 /\ (sticky \/ q[1] % 2 = 1))
                 q1 == IF up THEN BigAdd(q, <<1>>) ELSE q
             IN  IF BitLen(q1) > ManBits
                 THEN Num(sign, exp + k + 1, Shr(q1, 1))
                 ELSE Num(sign, exp + k, q1)

\* an integer literal
FromInt(n) ==
    IF n < 0 THEN Round(1, 0, FromNat(-n), FALSE)
    ELSE Round(0, 0, FromNat(n), FALSE)

\* the double with the given four 16-bit words, most significant first
FromWords(w3, w2, w1, w0) ==
    LET field == (w3 % (2 ^ 15)) \div (2 ^ 4)
        man == BigAdd(Shl(FromNat((2 ^ 4) + (w3 % (2 ^ 4))), 48),
                      BigAdd(Shl(FromNat(w2), 32),
                             BigAdd(Shl(FromNat(w1), 16), FromNat(w0))))
    IN  IF field = 0 THEN Zero(w3 \div (2 ^ 15))
        ELSE Num(w3 \div (2 ^ 15), field - ExpBias, man)

\* the high word of x without its sign bit (fdlibm's ix)
HighWord(x) ==
    IF x.man = <<>> THEN 0
    ELSE (x.exp + ExpBias) * (2 ^ 20) + ToNat(Shr(x.man, 32)) - (2 ^ 20)

\* the double with high word h and low word 0
FromHighWord(h) ==
    Num(0, (h \div (2 ^ 20)) - ExpBias,
        Shl(FromNat((2 ^ 20) + (h % (2 ^ 20))), 32))

\* the biased exponent field of x
ExpField(x) == IF x.man = <<>> THEN 0 ELSE x.exp + ExpBias

\* -x
Neg(x) == IF IsNum(x) THEN Num(1 - x.sign, x.exp, x.man) ELSE x

\* fabs(x)
Abs(x) == IF IsNum(x) THEN Num(0, x.exp, x.man) ELSE x

\* x + y
Add(x, y) ==
    IF ~IsNum(x) \/ ~IsNum(y) THEN NaN
    ELSE IF x.man = <<>>
    THEN IF y.man = <<>> THEN Zero(x.sign * y.sign) ELSE y
    ELSE IF y.man = <<>> THEN x
    ELSE LET e == IF x.exp < y.exp THEN x.exp ELSE y.exp
             mx == Shl(x.man, x.exp - e)
             my == Shl(y.man, y.exp - e)
             c == BigCmp(mx, my)
         IN  IF x.sign = y.sign THEN Round(x.sign, e, BigAdd(mx, my), FALSE)
             ELSE IF c = 0 THEN Zero(0)
             ELSE IF c > 0 THEN Round(x.sign, e, BigSub(mx, my), FALSE)
             ELSE Round(y.sign, e, BigSub(my, mx), FALSE)

\* x - y
Sub(x, y) == Add(x, Neg(y))

\* x * y
Mul(x, y) ==
    IF ~IsNum(x) \/ ~IsNum(y) THEN NaN
    ELSE LET sign == (x.sign + y.sign) % 2
         IN  IF x.man = <<>> \/ y.man = <<>> THEN Zero(sign)
             ELSE Round(sign, x.exp + y.exp, BigMul(x.man, y.man), FALSE)

\* limbs of a quotient below its leading bit: more bits than ManBits
DivLimbCount == 2 + 2

\* x / y, for y not zero
Div(x, y) ==
    IF ~IsNum(x) \/ ~IsNum(y) \/ y.man = <<>> THEN NaN
    ELSE LET sign == (x.sign + y.sign) % 2
             n == IF BigCmp(x.man, y.man) < 0 THEN 1 ELSE 0
             d == DivShifted(Shl(x.man, n), y.man, DivLimbCount)
         IN  IF x.man = <<>> THEN Zero(sign)
             ELSE Round(sign, x.exp - n - y.exp - DivLimbCount * LimbBits,
                        d.quot, d.rem # <<>>)

\* Math.sqrt
Sqrt(x) ==
    IF ~IsNum(x) THEN NaN
    ELSE IF x.man = <<>> THEN x
    ELSE IF x.sign = 1 THEN NaN
    ELSE LET s == ManBits + 5 + (x.exp % 2)
             r == BigSqrt(Shl(x.man, s))
         IN  Round(0, (x.exp - s) \div 2, r.root, r.rem # <<>>)

\* -1, 0 or 1 as |x| is below, equal to or above |y|, for finite x and y
CmpAbs(x, y) ==
    IF x.man = <<>> THEN (IF y.man = <<>> THEN 0 ELSE -1)
    ELSE IF y.man = <<>> THEN 1
    ELSE IF x.exp < y.exp THEN -1
    ELSE IF x.exp > y.exp THEN 1
    ELSE BigCmp(x.man, y.man)

\* x < y
Less(x, y) ==
    IF x.kind = "nan" \/ y.kind = "nan" THEN FALSE
    ELSE IF y.kind = "inf" THEN x.kind = "num" \/ (x.sign = 1 /\ y.sign = 0)
    ELSE IF x.kind = "inf" THEN x.sign = 1
    ELSE IF x.sign = 0 THEN y.sign = 0 /\ CmpAbs(x, y) < 0
    ELSE IF y.sign = 1 THEN CmpAbs(x, y) > 0
    ELSE x.man # <<>> \/ y.man # <<>>

\* x === y
StrictEquals(x, y) ==
    IF x.kind = "nan" \/ y.kind = "nan" THEN FALSE
    ELSE IF x.kind = "inf" \/ y.kind = "inf" THEN x = y
    ELSE (x.man = <<>> /\ y.man = <<>>) \/ x = y

\* x <= y
LessOrEqual(x, y) == Less(x, y) \/ StrictEquals(x, y)

\* (int) x, for x >= 0 below 2^31
ToInt(x) ==
    IF x.man = <<>> THEN 0
    ELSE IF x.exp >= 0 THEN ToNat(Shl(x.man, x.exp))
    ELSE ToNat(Shr(x.man, -x.exp))

----------------------------------------------------------------------------
(* Programs.  The arithmetic of calculateDistance, and of Math.sin,        *)
(* Math.cos and Math.atan2 as V8 computes them (its port of fdlibm), is    *)
(* written as the code has it, statement by statement: a statement is a    *)
(* list of instructions <<target, operator, operand, operand>>, one for    *)
(* each operator of its expression, in the order of evaluation.  A target  *)
(* is a register, named as the variable of the code that it holds; the     *)
(* registers _1, _2, ... hold the values of the subexpressions.  An        *)
(* operand is a register or a constant of the code.                        *)

\* Radius of the Earth in kilometers
R == 6371

\* R and the integer literals of calculateDistance
IntegerLiterals == ("R" :> R) @@ ("180" :> 180) @@ ("2" :> 2) @@ ("1" :> 1)

\* Math.PI and the constants of fdlibm, each as the four 16-bit words of
\* its double, most significant first
ConstantWords ==
    ("Math.PI" :> <<\h4009, \h21FB, \h5444, \h2D18>>) @@
    ("half" :> <<\h3FE0, 0, 0, 0>>) @@
    ("S1" :> <<\hBFC5, \h5555, \h5555, \h5549>>) @@
    ("S2" :> <<\h3F81, \h1111, \h1110, \hF8A6>>) @@
    ("S3" :> <<\hBF2A, \h01A0, \h19C1, \h61D5>>) @@
    ("S4" :> <<\h3EC7, \h1DE3, \h57B1, \hFE7D>>) @@
    ("S5" :> <<\hBE5A, \hE5E6, \h8A2B, \h9CEB>>) @@
    ("S6" :> <<\h3DE5, \hD93A, \h5ACF, \hD57C>>) @@
    ("C1" :> <<\h3FA5, \h5555, \h5555, \h554C>>) @@
    ("C2" :> <<\hBF56, \hC16C, \h16C1, \h5177>>) @@
    ("C3" :> <<\h3EFA, \h01A0, \h19CB, \h1590>>) @@
    ("C4" :> <<\hBE92, \h7E4F, \h809C, \h52AD>>) @@
    ("C5" :> <<\h3E21, \hEE9E, \hBDB4, \hB1C4>>) @@
    ("C6" :> <<\hBDA8, \hFAE9, \hBE88, \h38D4>>) @@
    ("0.28125" :> <<\h3FD2, 0, 0, 0>>) @@
    ("invpio2" :> <<\h3FE4, \h5F30, \h6DC9, \hC883>>) @@
    ("pio2_1" :> <<\h3FF9, \h21FB, \h5440, \h0000>>) @@
    ("pio2_1t" :> <<\h3DD0, \hB461, \h1A62, \h6331>>) @@
    ("pio2_2" :> <<\h3DD0, \hB461, \h1A60, \h0000>>) @@
    ("pio2_2t" :> <<\h3BA3, \h198A, \h2E03, \h7073>>) @@
    ("pio2_3" :> <<\h3BA3, \h198A, \h2E00, \h0000>>) @@
    ("pio2_3t" :> <<\h397B, \h839A, \h2520, \h49C1>>) @@
    ("atanhi[0]" :> <<\h3FDD, \hAC67, \h0561, \hBB4F>>) @@
    ("atanhi[1]" :> <<\h3FE9, \h21FB, \h5444, \h2D18>>) @@
    ("atanhi[2]" :> <<\h3FEF, \h730B, \hD281, \hF69B>>) @@
    ("atanhi[3]" :> <<\h3FF9, \h21FB, \h5444, \h2D18>>) @@
    ("atanlo[0]" :> <<\h3C7A, \h2B7F, \h222F, \h65E2>>) @@
    ("atanlo[1]" :> <<\h3C81, \hA626, \h3314, \h5C07>>) @@
    ("atanlo[2]" :> <<\h3C70, \h0788, \h7AF0, \hCBBD>>) @@
    ("atanlo[3]" :> <<\h3C91, \hA626, \h3314, \h5C07>>) @@
    ("aT[0]" :> <<\h3FD5, \h5555, \h5555, \h550D>>) @@
    ("aT[1]" :> <<\hBFC9, \h9999, \h9998, \hEBC4>>) @@
    ("aT[2]" :> <<\h3FC2, \h4924, \h9200, \h83FF>>) @@
    ("aT[3]" :> <<\hBFBC, \h71C6, \hFE23, \h1671>>) @@
    ("aT[4]" :> <<\h3FB7, \h45CD, \hC54C, \h206E>>) @@
    ("aT[5]" :> <<\hBFB3, \hB0F2, \hAF74, \h9A6D>>) @@
    ("aT[6]" :> <<\h3FB1, \h0D66, \hA0D0, \h3D51>>) @@
    ("aT[7]" :> <<\hBFAD, \hDE2D, \h52DE, \hFD9A>>) @@
    ("aT[8]" :> <<\h3FA9, \h7B4B, \h2476, \h0DEB>>) @@
    ("aT[9]" :> <<\hBFA2, \hB444, \h2C6A, \h6C2F>>) @@
    ("aT[10]" :> <<\h3F90, \hAD3A, \hE322, \hDA11>>) @@
    ("one" :> <<\h3FF0, 0, 0, 0>>) @@
    ("2.0" :> <<\h4000, 0, 0, 0>>) @@
    ("pi_o_2" :> <<\h3FF9, \h21FB, \h5444, \h2D18>>) @@
    ("pi_lo" :> <<\h3CA1, \hA626, \h3314, \h5C07>>) @@
    ("one" :> <<\h3FF0, 0, 0, 0>>) @@
    ("2.0" :> <<\h4000, 0, 0, 0>>) @@
    ("pi_o_2" :> <<\h3FF9, \h21FB, \h5444, \h2D18>>) @@
    ("1.5" :> <<\h3FF8, 0, 0, 0>>)

\* the values of the constants
Constants ==
    [k \in DOMAIN IntegerLiterals |-> FromInt(IntegerLiterals[k])]
    @@ [k \in DOMAIN ConstantWords |->
           FromWords(ConstantWords[k][1], ConstantWords[k][2],
                     ConstantWords[k][3], ConstantWords[k][4])]

RECURSIVE Exec(_, _, _, _)

\* the registers after the program code has run from the given registers
Run(code, registers) == Exec(code, 1, Len(code), registers)

\* __kernel_sin(x, y, iy), for x with high word ix
KernelSinCode(ix, iy) ==
    IF ix < \h3E40 * (2 ^ 16) THEN
       << \* return = x
          <<"return", "Copy", "x", "x">> >>
    ELSE
       << \* z = x * x
          <<"z", "Mul", "x", "x">>,
          \* v = z * x
          <<"v", "Mul", "z", "x">>,
          \* r = S2 + z * (S3 + z * (S4 + z * (S5 + z * S6)))
          <<"_1", "Mul", "z", "S6">>,
          <<"_2", "Add", "S5", "_1">>,
          <<"_3", "Mul", "z", "_2">>,
          <<"_4", "Add", "S4", "_3">>,
          <<"_5", "Mul", "z", "_4">>,
          <<"_6", "Add", "S3", "_5">>,
          <<"_7", "Mul", "z", "_6">>,
          <<"r", "Add", "S2", "_7">> >>
       \o IF iy = 0
          THEN
          << \* return = x + v * (S1 + z * r)
             <<"_1", "Mul", "z", "r">>,
             <<"_2", "Add", "S1", "_1">>,
             <<"_3", "Mul", "v", "_2">>,
             <<"return", "Add", "x", "_3">> >>
          ELSE
          << \* return = x - ((z * (half * y - v * r) - y) - v * S1)
             <<"_1", "Mul", "half", "y">>,
             <<"_2", "Mul", "v", "r">>,
             <<"_3", "Sub", "_1", "_2">>,
             <<"_4", "Mul", "z", "_3">>,
             <<"_5", "Sub", "_4", "y">>,
             <<"_6", "Mul", "v", "S1">>,
             <<"_7", "Sub", "_5", "_6">>,
             <<"return", "Sub", "x", "_7">> >>

\* __kernel_sin(x, y, iy): sine of x + y for |x| <= pi/4, y the tail of x
KernelSin(x, y, iy) ==
    Run(KernelSinCode(HighWord(x), iy), ("x" :> x) @@ ("y" :> y))["return"]

\* __kernel_cos(x, y), for x with high word ix; for ix <= 0x3FE90000 the
\* register qx holds on entry the double with high word ix - 0x00200000
\* and low word 0
KernelCosCode(ix) ==
    IF ix < \h3E40 * (2 ^ 16) THEN
       << \* return = one
          <<"return", "Copy", "one", "one">> >>
    ELSE
       << \* z = x * x
          <<"z", "Mul", "x", "x">>,
          \* r = z * (C1 + z * (C2 + z * (C3 + z * (C4 + z * (C5 + z *
          \*    C6)))))
          <<"_1", "Mul", "z", "C6">>,
          <<"_2", "Add", "C5", "_1">>,
          <<"_3", "Mul", "z", "_2">>,
          <<"_4", "Add", "C4", "_3">>,
          <<"_5", "Mul", "z", "_4">>,
          <<"_6", "Add", "C3", "_5">>,
          <<"_7", "Mul", "z", "_6">>,
          <<"_8", "Add", "C2", "_7">>,
          <<"_9", "Mul", "z", "_8">>,
          <<"_10", "Add", "C1", "_9">>,
          <<"r", "Mul", "z", "_10">> >>
       \o IF ix < \h3FD3 * (2 ^ 16) + \h3333
          THEN
          << \* return = one - (half * z - (z * r - x * y))
             <<"_1", "Mul", "half", "z">>,
             <<"_2", "Mul", "z", "r">>,
             <<"_3", "Mul", "x", "y">>,
             <<"_4", "Sub", "_2", "_3">>,
             <<"_5", "Sub", "_1", "_4">>,
             <<"return", "Sub", "one", "_5">> >>
          ELSE
          (IF ix > \h3FE9 * (2 ^ 16)
           THEN
           << \* qx = 0.28125
              <<"qx", "Copy", "0.28125", "0.28125">> >>
           ELSE <<>>)
          \o
          << \* hz = half * z - qx
             <<"_1", "Mul", "half", "z">>,
             <<"hz", "Sub", "_1", "qx">>,
             \* a = one - qx
             <<"a", "Sub", "one", "qx">>,
             \* return = a - (hz - (z * r - x * y))
             <<"_1", "Mul", "z", "r">>,
             <<"_2", "Mul", "x", "y">>,
             <<"_3", "Sub", "_1", "_2">>,
             <<"_4", "Sub", "hz", "_3">>,
             <<"return", "Sub", "a", "_4">> >>

\* __kernel_cos(x, y): cosine of x + y for |x| <= pi/4, y the tail of x
KernelCos(x, y) ==
    Run(KernelCosCode(HighWord(x)),
        ("x" :> x) @@ ("y" :> y)
        @@ ("qx" :> FromHighWord(HighWord(x) - \h0020 * (2 ^ 16))))["return"]

\* the high words of pi/2, pi, 3 pi/2 and 2 pi: npio2_hw[0..3]
npio2_hw == <<\h3FF9 * (2 ^ 16) + \h21FB, \h4009 * (2 ^ 16) + \h21FB,
              \h4012 * (2 ^ 16) + \hD97C, \h4019 * (2 ^ 16) + \h21FB>>

\* the result of __ieee754_rem_pio2: n, y[0] and y[1]
RemPio2Result(n, registers) ==
    [n |-> n, y0 |-> registers["y[0]"], y1 |-> registers["y[1]"]]

\* __ieee754_rem_pio2 for pi/4 < x < 3 pi/4, x with high word ix
RemPio2NearCode(ix) ==
    << \* z = x - pio2_1
       <<"z", "Sub", "x", "pio2_1">> >>
    \o IF ix # npio2_hw[1]
       THEN
       << \* y[0] = z - pio2_1t
          <<"y[0]", "Sub", "z", "pio2_1t">>,
          \* y[1] = (z - y[0]) - pio2_1t
          <<"_1", "Sub", "z", "y[0]">>,
          <<"y[1]", "Sub", "_1", "pio2_1t">> >>
       ELSE
       << \* z = z - pio2_2
          <<"z", "Sub", "z", "pio2_2">>,
          \* y[0] = z - pio2_2t
          <<"y[0]", "Sub", "z", "pio2_2t">>,
          \* y[1] = (z - y[0]) - pio2_2t
          <<"_1", "Sub", "z", "y[0]">>,
          <<"y[1]", "Sub", "_1", "pio2_2t">> >>

\* __ieee754_rem_pio2 for pi/4 < x < 3 pi/4: x - pi/2 as y[0] + y[1]
RemPio2Near(x) ==
    RemPio2Result(1, Run(RemPio2NearCode(HighWord(x)), "x" :> x))

\* __ieee754_rem_pio2 for 3 pi/4 <= x <= 2 pi: the multiple of pi/2 and the
\* first round of the reduction
RemPio2Round1Code ==
    << \* fn = int32_t(t * invpio2 + half)
       <<"_1", "Mul", "t", "invpio2">>,
       <<"_2", "Add", "_1", "half">>,
       <<"fn", "Int32", "_2", "_2">>,
       \* r = t - fn * pio2_1
       <<"_1", "Mul", "fn", "pio2_1">>,
       <<"r", "Sub", "t", "_1">>,
       \* w = fn * pio2_1t
       <<"w", "Mul", "fn", "pio2_1t">>,
       \* y[0] = r - w
       <<"y[0]", "Sub", "r", "w">> >>

\* the second round, for a first round that cancels more than 16 bits
RemPio2Round2Code ==
    << \* t = r
       <<"t", "Copy", "r", "r">>,
       \* w = fn * pio2_2
       <<"w", "Mul", "fn", "pio2_2">>,
       \* r = t - w
       <<"r", "Sub", "t", "w">>,
       \* w = fn * pio2_2t - ((t - r) - w)
       <<"_1", "Mul", "fn", "pio2_2t">>,
       <<"_2", "Sub", "t", "r">>,
       <<"_3", "Sub", "_2", "w">>,
       <<"w", "Sub", "_1", "_3">>,
       \* y[0] = r - w
       <<"y[0]", "Sub", "r", "w">> >>

\* the third round, for a second round that cancels more than 49 bits
RemPio2Round3Code ==
    << \* t = r
       <<"t", "Copy", "r", "r">>,
       \* w = fn * pio2_3
       <<"w", "Mul", "fn", "pio2_3">>,
       \* r = t - w
       <<"r", "Sub", "t", "w">>,
       \* w = fn * pio2_3t - ((t - r) - w)
       <<"_1", "Mul", "fn", "pio2_3t">>,
       <<"_2", "Sub", "t", "r">>,
       <<"_3", "Sub", "_2", "w">>,
       <<"w", "Sub", "_1", "_3">>,
       \* y[0] = r - w
       <<"y[0]", "Sub", "r", "w">> >>

\* the tail of the result
RemPio2TailCode ==
    << \* y[1] = (r - y[0]) - w
       <<"_1", "Sub", "r", "y[0]">>,
       <<"y[1]", "Sub", "_1", "w">> >>

RECURSIVE RemPio2Rounds(_, _, _)
\* __ieee754_rem_pio2 for 3 pi/4 <= x <= 2 pi, from the end of a round of
\* the reduction on
RemPio2Rounds(x, round, registers) ==
    LET ix == HighWord(x)
        n == ToInt(registers["fn"])
        i == (ix \div (2 ^ 20)) - ExpField(registers["y[0]"])
    IN  IF \/ round = 1 /\ n <= Len(npio2_hw) /\ ix # npio2_hw[n]
           \/ round = 1 /\ i <= 16
           \/ round = 2 /\ i <= 49
           \/ round = 3
        THEN RemPio2Result(n, Run(RemPio2TailCode, registers))
        ELSE RemPio2Rounds(x, round + 1,
                 Run(IF round = 1 THEN RemPio2Round2Code
                     ELSE RemPio2Round3Code, registers))

\* __ieee754_rem_pio2 for 3 pi/4 <= x <= 2 pi: x - n pi/2 as y[0] + y[1]
RemPio2Medium(x) == RemPio2Rounds(x, 1, Run(RemPio2Round1Code, "t" :> x))

\* __ieee754_rem_pio2 for pi/4 < x <= 2 pi
RemPio2Positive(x) ==
    IF HighWord(x) < \h4002 * (2 ^ 16) + \hD97C THEN RemPio2Near(x)
    ELSE RemPio2Medium(x)

\* the result of __ieee754_rem_pio2 for -x, given its result p for x
RemPio2Negative(p) == [n |-> -p.n, y0 |-> Neg(p.y0), y1 |-> Neg(p.y1)]

\* __ieee754_rem_pio2 for pi/4 < |x| <= 2 pi
RemPio2(x) ==
    IF x.sign = 0 THEN RemPio2Positive(x)
    ELSE RemPio2Negative(RemPio2Positive(Abs(x)))

\* the high word of pi/4
PiOver4Hw == \h3FE9 * (2 ^ 16) + \h21FB

\* sin(x), given the result p of __ieee754_rem_pio2 for x
SinReduced(p) ==
    LET q == p.n % 4
    IN  IF q = 0 THEN KernelSin(p.y0, p.y1, 1)
        ELSE IF q = 1 THEN KernelCos(p.y0, p.y1)
        ELSE IF q = 2 THEN Neg(KernelSin(p.y0, p.y1, 1))
        ELSE Neg(KernelCos(p.y0, p.y1))

\* Math.sin
Sin(x) ==
    IF ~IsNum(x) THEN NaN
    ELSE IF HighWord(x) <= PiOver4Hw THEN KernelSin(x, Zero(0), 0)
    ELSE SinReduced(RemPio2(x))

\* cos(x), given the result p of __ieee754_rem_pio2 for x
CosReduced(p) ==
    LET q == p.n % 4
    IN  IF q = 0 THEN KernelCos(p.y0, p.y1)
        ELSE IF q = 1 THEN Neg(KernelSin(p.y0, p.y1, 1))
        ELSE IF q = 2 THEN Neg(KernelCos(p.y0, p.y1))
        ELSE KernelSin(p.y0, p.y1, 1)

\* Math.cos
Cos(x) ==
    IF ~IsNum(x) THEN NaN
    ELSE IF HighWord(x) <= PiOver4Hw THEN KernelCos(x, Zero(0))
    ELSE CosReduced(RemPio2(x))

\* atan(x): the index of the range of x >= 0 with high word ix, -1 for
\* x < 7/16
AtanId(ix) ==
    IF ix < \h3FDC * (2 ^ 16) THEN -1
    ELSE IF ix < \h3FE6 * (2 ^ 16) THEN 0
    ELSE IF ix < \h3FF3 * (2 ^ 16) THEN 1
    ELSE IF ix < \h4003 * (2 ^ 16) + \h8000 THEN 2
    ELSE 3

\* atan(x): the argument reduced to the range of the polynomial
AtanReduceCode(id) ==
    IF id = 0 THEN
       << \* x = (2.0 * x - one) / (2.0 + x)
          <<"_1", "Mul", "2.0", "x">>,
          <<"_2", "Sub", "_1", "one">>,
          <<"_3", "Add", "2.0", "x">>,
          <<"x", "Div", "_2", "_3">> >>
    ELSE IF id = 1 THEN
       << \* x = (x - one) / (x + one)
          <<"_1", "Sub", "x", "one">>,
          <<"_2", "Add", "x", "one">>,
          <<"x", "Div", "_1", "_2">> >>
    ELSE IF id = 2 THEN
       << \* x = (x - 1.5) / (one + 1.5 * x)
          <<"_1", "Sub", "x", "1.5">>,
          <<"_2", "Mul", "1.5", "x">>,
          <<"_3", "Add", "one", "_2">>,
          <<"x", "Div", "_1", "_3">> >>
    ELSE IF id = 3 THEN
       << \* x = -one / x
          <<"_1", "Neg", "one", "one">>,
          <<"x", "Div", "_1", "x">> >>
    ELSE <<>>

\* atan(x): the polynomial
AtanPolyCode ==
    << \* z = x * x
       <<"z", "Mul", "x", "x">>,
       \* w = z * z
       <<"w", "Mul", "z", "z">>,
       \* s1 = z * (aT[0] + w * (aT[2] + w * (aT[4] + w * (aT[6] + w *
       \*    (aT[8] + w * aT[10])))))
       <<"_1", "Mul", "w", "aT[10]">>,
       <<"_2", "Add", "aT[8]", "_1">>,
       <<"_3", "Mul", "w", "_2">>,
       <<"_4", "Add", "aT[6]", "_3">>,
       <<"_5", "Mul", "w", "_4">>,
       <<"_6", "Add", "aT[4]", "_5">>,
       <<"_7", "Mul", "w", "_6">>,
       <<"_8", "Add", "aT[2]", "_7">>,
       <<"_9", "Mul", "w", "_8">>,
       <<"_10", "Add", "aT[0]", "_9">>,
       <<"s1", "Mul", "z", "_10">>,
       \* s2 = w * (aT[1] + w * (aT[3] + w * (aT[5] + w * (aT[7] + w *
       \*    aT[9]))))
       <<"_1", "Mul", "w", "aT[9]">>,
       <<"_2", "Add", "aT[7]", "_1">>,
       <<"_3", "Mul", "w", "_2">>,
       <<"_4", "Add", "aT[5]", "_3">>,
       <<"_5", "Mul", "w", "_4">>,
       <<"_6", "Add", "aT[3]", "_5">>,
       <<"_7", "Mul", "w", "_6">>,
       <<"_8", "Add", "aT[1]", "_7">>,
       <<"s2", "Mul", "w", "_8">> >>

\* atan(x): the result
AtanResultCode(id) ==
    IF id < 0 THEN
       << \* return = x - x * (s1 + s2)
          <<"_1", "Add", "s1", "s2">>,
          <<"_2", "Mul", "x", "_1">>,
          <<"return", "Sub", "x", "_2">> >>
    ELSE IF id = 0 THEN
       << \* return = atanhi[0] - ((x * (s1 + s2) - atanlo[0]) - x)
          <<"_1", "Add", "s1", "s2">>,
          <<"_2", "Mul", "x", "_1">>,
          <<"_3", "Sub", "_2", "atanlo[0]">>,
          <<"_4", "Sub", "_3", "x">>,
          <<"return", "Sub", "atanhi[0]", "_4">> >>
    ELSE IF id = 1 THEN
       << \* return = atanhi[1] - ((x * (s1 + s2) - atanlo[1]) - x)
          <<"_1", "Add", "s1", "s2">>,
          <<"_2", "Mul", "x", "_1">>,
          <<"_3", "Sub", "_2", "atanlo[1]">>,
          <<"_4", "Sub", "_3", "x">>,
          <<"return", "Sub", "atanhi[1]", "_4">> >>
    ELSE IF id = 2 THEN
       << \* return = atanhi[2] - ((x * (s1 + s2) - atanlo[2]) - x)
          <<"_1", "Add", "s1", "s2">>,
          <<"_2", "Mul", "x", "_1">>,
          <<"_3", "Sub", "_2", "atanlo[2]">>,
          <<"_4", "Sub", "_3", "x">>,
          <<"return", "Sub", "atanhi[2]", "_4">> >>
    ELSE
       << \* return = atanhi[3] - ((x * (s1 + s2) - atanlo[3]) - x)
          <<"_1", "Add", "s1", "s2">>,
          <<"_2", "Mul", "x", "_1">>,
          <<"_3", "Sub", "_2", "atanlo[3]">>,
          <<"_4", "Sub", "_3", "x">>,
          <<"return", "Sub", "atanhi[3]", "_4">> >>

\* atan(x), for x >= 0 with high word ix
AtanCode(ix) ==
    IF ix >= \h4410 * (2 ^ 16) THEN
       << \* return = atanhi[3] + atanlo[3]
          <<"return", "Add", "atanhi[3]", "atanlo[3]">> >>
    ELSE IF ix < \h3E20 * (2 ^ 16) THEN
       << \* return = x
          <<"return", "Copy", "x", "x">> >>
    ELSE AtanReduceCode(AtanId(ix)) \o AtanPolyCode
         \o AtanResultCode(AtanId(ix))

\* atan(x) for x >= 0
Atan(x) == Run(AtanCode(HighWord(x)), "x" :> x)["return"]

\* atan2(y, x) for y >= 0 and x >= 0, not both zero
Atan2Code(y, x) ==
    IF x = FromHighWord(\h3FF0 * (2 ^ 16)) THEN
       << \* z = atan(y)
          <<"z", "Atan", "y", "y">> >>
    ELSE IF y.man = <<>> THEN
       << \* z = y
          <<"z", "Copy", "y", "y">> >>
    ELSE IF x.man = <<>> THEN
       << \* z = pi_o_2
          <<"z", "Copy", "pi_o_2", "pi_o_2">> >>
    ELSE IF (HighWord(y) - HighWord(x)) \div (2 ^ 20) > 60 THEN
       << \* z = pi_o_2 + half * pi_lo
          <<"_1", "Mul", "half", "pi_lo">>,
          <<"z", "Add", "pi_o_2", "_1">> >>
    ELSE
       << \* z = atan(fabs(y / x))
          <<"_1", "Div", "y", "x">>,
          <<"_2", "Abs", "_1", "_1">>,
          <<"z", "Atan", "_2", "_2">> >>

\* Math.atan2(y, x) for y >= 0 and x >= 0, not both zero, or either NaN
Atan2(y, x) ==
    IF ~IsNum(y) \/ ~IsNum(x) THEN NaN
    ELSE Run(Atan2Code(y, x), ("y" :> y) @@ ("x" :> x))["z"]

\* the value of an operator of the code on x and y (on x alone when it has
\* one operand)
Apply(op, x, y) ==
    CASE op = "Add" -> Add(x, y)
      [] op = "Sub" -> Sub(x, y)
      [] op = "Mul" -> Mul(x, y)
      [] op = "Div" -> Div(x, y)
      [] op = "Neg" -> Neg(x)
      [] op = "Abs" -> Abs(x)
      [] op = "Copy" -> x
      [] op = "Int32" -> FromInt(ToInt(x))
      [] op = "Sqrt" -> Sqrt(x)
      [] op = "Sin" -> Sin(x)
      [] op = "Cos" -> Cos(x)
      [] op = "Atan" -> Atan(x)
      [] op = "Atan2" -> Atan2(x, y)

\* the value of an operand: of a register, or else of a constant
Operand(name, registers) ==
    IF name \in DOMAIN registers THEN registers[name] ELSE Constants[name]

\* the registers after the instruction ins
Step(ins, registers) ==
    (ins[1] :> Apply(ins[2], Operand(ins[3], registers),
                     Operand(ins[4], registers)))
    @@ registers

\* the registers after the instructions lo..hi of code, in order (the
\* test has the registers of the first half computed before the second
\* half starts)
Exec(code, lo, hi, registers) ==
    IF lo > hi THEN registers
    ELSE IF lo = hi THEN Step(code[lo], registers)
    ELSE LET mid == (lo + hi) \div 2
             first == Exec(code, lo, mid, registers)
         IN  IF DOMAIN first = {} THEN first
             ELSE Exec(code, mid + 1, hi, first)

----------------------------------------------------------------------------
(* calculateDistance.                                                      *)

\* coordinate units per degree
DegUnits == 10 ^ 6

\* the number a coordinate of n units stands for
Degrees(n) == Div(FromInt(n), FromInt(DegUnits))

\* the body of calculateDistance
CalculateDistanceCode ==
    << \* dLat = ((lat2 - lat1) * Math.PI) / 180
       <<"_1", "Sub", "lat2", "lat1">>,
       <<"_2", "Mul", "_1", "Math.PI">>,
       <<"dLat", "Div", "_2", "180">>,
       \* dLng = ((lng2 - lng1) * Math.PI) / 180
       <<"_1", "Sub", "lng2", "lng1">>,
       <<"_2", "Mul", "_1", "Math.PI">>,
       <<"dLng", "Div", "_2", "180">>,
       \* a = Math.sin(dLat / 2) * Math.sin(dLat / 2) + Math.cos((lat1 *
       \*    Math.PI) / 180) * Math.cos((lat2 * Math.PI) / 180) *
       \*    Math.sin(dLng / 2) * Math.sin(dLng / 2)
       <<"_1", "Div", "dLat", "2">>,
       <<"_2", "Sin", "_1", "_1">>,
       <<"_3", "Div", "dLat", "2">>,
       <<"_4", "Sin", "_3", "_3">>,
       <<"_5", "Mul", "_2", "_4">>,
       <<"_6", "Mul", "lat1", "Math.PI">>,
       <<"_7", "Div", "_6", "180">>,
       <<"_8", "Cos", "_7", "_7">>,
       <<"_9", "Mul", "lat2", "Math.PI">>,
       <<"_10", "Div", "_9", "180">>,
       <<"_11", "Cos", "_10", "_10">>,
       <<"_12", "Mul", "_8", "_11">>,
       <<"_13", "Div", "dLng", "2">>,
       <<"_14", "Sin", "_13", "_13">>,
       <<"_15", "Mul", "_12", "_14">>,
       <<"_16", "Div", "dLng", "2">>,
       <<"_17", "Sin", "_16", "_16">>,
       <<"_18", "Mul", "_15", "_17">>,
       <<"a", "Add", "_5", "_18">>,
       \* c = 2 * Math.atan2(Math.sqrt(a), Math.sqrt(1 - a))
       <<"_1", "Sqrt", "a", "a">>,
       <<"_2", "Sub", "1", "a">>,
       <<"_3", "Sqrt", "_2", "_2">>,
       <<"_4", "Atan2", "_1", "_3">>,
       <<"c", "Mul", "2", "_4">>,
       \* return = R * c
       <<"return", "Mul", "R", "c">> >>

\* calculateDistance: haversine distance in km between (lat1, lng1) and
\* (lat2, lng2), given in coordinate units
CalculateDistance(lat1, lng1, lat2, lng2) ==
    LET args == ("lat1" :> lat1) @@ ("lng1" :> lng1)
                @@ ("lat2" :> lat2) @@ ("lng2" :> lng2)
    IN  Run(CalculateDistanceCode,
            [k \in DOMAIN args |-> Degrees(args[k])])["return"]

----------------------------------------------------------------------------
(* Values.                                                                 *)

\* null
Null == [null |-> TRUE]

\* useState({ lat: 22.681014, lng: 75.879484 })
DefaultCenter == [lat |-> 22681014, lng |-> 75879484]

\* positions the Geolocation Source may report: (22.6875, 75.88) and
\* (22.695, 75.915)
GeoPositions ==
    {[lat |-> 22687500, lng |-> 75880000], [lat |-> 22695000, lng |-> 75915000]}

\* places the Places Provider may return, each within 5 km of a center.
\* From the default center B is the closest, then A, then C; from the first
\* geolocated position A and B are at the same distance and C is farther;
\* from the second C is the closest.
HospitalA == [name |-> "A", location |-> [lat |-> 22718750, lng |-> 75880000]]
HospitalB == [name |-> "B", location |-> [lat |-> 22656250, lng |-> 75880000]]
HospitalC == [name |-> "C", location |-> [lat |-> 22700000, lng |-> 75920000]]
Hospitals == {HospitalA, HospitalB, HospitalC}

\* longest result list of a Places response
MaxResults == 3

\* route requests after which the runs explored have no further marker
\* click: they have up to two clicks after one Places response with
\* places, or one click after two such responses
MaxRoutes == 3

\* result lists: up to MaxResults distinct places, in any order
ResultLists ==
    {hs \in UNION {[1..n -> Hospitals] : n \in 0..MaxResults} :
        \A i, j \in 1..Len(hs) : hs[i] = hs[j] => i = j}

\* the values center takes
Centers == {DefaultCenter} \cup GeoPositions

\* google.maps.places.PlacesServiceStatus values the provider answers with
OK == "OK"
Statuses == {OK, "ZERO_RESULTS", "ERROR"}

\* results.routes[0].legs[0] of a route response that carries the texts of
\* both its distance and its duration
Legs == {[distance |-> "1.2 km", duration |-> "4 mins"]}

\* legs[0] of a route response in which distance is undefined, so that
\* reading legs[0].distance.text throws
LegsWithoutText == {[duration |-> "4 mins"]}

\* a point of the road between an origin and a destination: (22.67, 75.885)
ViaPoint == [lat |-> 22670000, lng |-> 75885000]

\* useState({ distance: '', duration: '' })
NoInfo == [distance |-> "", duration |-> ""]

VARIABLES
    isLoaded,          \* useJsApiLoader().isLoaded
    map,               \* the map instance, Null until onLoad
    center,
    hospitals,
    nearestHospital,
    selectedHospital,
    routePath,
    info,
    geolocation,       \* "unsupported", "pending", "success" or "error"
    placesPending,     \* nearbySearch callbacks not yet called (indices of searchLog)
    routePending,      \* route promises not yet settled (indices of routeLog)
    searchLog,         \* every request passed to nearbySearch, in order
    routeLog,          \* every request passed to DirectionsService.route, in order
    hospitalsReq,      \* search whose response last wrote hospitals, 0 if none
    routePathReq,      \* route request whose response last wrote routePath, 0 if none
    infoReq,           \* route request whose response last wrote info, 0 if none
    pendingEffects,    \* the runs of the search effect React still owes:
                       \* the map and center of the render that scheduled each
    event,             \* the handler that ran last, with its inputs
    measured           \* the last call of calculateDistance made on its own:
                       \* its two points and its results in both orders

view == <<isLoaded, map, center, hospitals, nearestHospital, selectedHospital,
          routePath, info>>
pending == <<geolocation, placesPending, routePending>>
history == <<searchLog, routeLog, hospitalsReq, routePathReq, infoReq>>
vars == <<view, pending, history, pendingEffects, event, measured>>

\* the handler that ran, the request it answers (0 if none), the status and
\* results of a Places response or the response of a fulfilled route
\* promise, and the arguments of the calls of calculateRoute it made
Event(op, req, status, results, calls) ==
    [op |-> op, req |-> req, status |-> status, results |-> results,
     calls |-> calls]

----------------------------------------------------------------------------
(* The functions of App.                                                   *)

\* the request of findHospitals
NearbySearchRequest(c) ==
    [location |-> c, radius |-> "5000", type |-> <<"hospital">>]

\* variant: the effect without its test of map
SearchEffect_NoMapTest(m, c) == <<NearbySearchRequest(c)>>

\* useEffect(() => { if (map) findHospitals(); }, [map, center, findHospitals]):
\* the requests issued by one run of the effect with map m and center c
SearchEffect(m, c) ==
    IF m # Null THEN <<NearbySearchRequest(c)>> ELSE <<>>

\* variant: the callback without its test of status
StatusOK_Untested(status) == TRUE

\* status === google.maps.places.PlacesServiceStatus.OK
StatusOK(status) == status = OK

\* variant: the comparison reversed
Closer_Reversed(distance, shortestDistance) == Less(shortestDistance, distance)

\* variant: less than or equal
Closer_OrEqual(distance, shortestDistance) ==
    LessOrEqual(distance, shortestDistance)

\* distance < shortestDistance
Closer(distance, shortestDistance) == Less(distance, shortestDistance)

\* calculateDistance(center.lat, center.lng, hospital.geometry.location.lat(),
\* hospital.geometry.location.lng()), tabulated over the centers and places
\* of the model
Distance ==
    [c \in Centers, h \in Hospitals |->
        CalculateDistance(c.lat, c.lng, h.location.lat, h.location.lng)]

RECURSIVE NearestScan(_, _, _, _, _)
\* the callback of hospitals.forEach for element i, after its distance is
\* computed, and the rest of the forEach
NearestVisit(hs, c, i, nearest, shortestDistance, distance) ==
    IF Closer(distance, shortestDistance)
    THEN NearestScan(hs, c, i + 1, hs[i], distance)
    ELSE NearestScan(hs, c, i + 1, nearest, shortestDistance)

\* hospitals.forEach of findNearestHospital, from element i on
NearestScan(hs, c, i, nearest, shortestDistance) ==
    IF i > Len(hs) THEN nearest
    ELSE NearestVisit(hs, c, i, nearest, shortestDistance, Distance[c, hs[i]])

\* variant: the scan starts from the nearestHospital of the state, not null
Nearest_FromState(hs, c) == NearestScan(hs, c, 1, nearestHospital, Infinity)

\* variant: the scan starts at the second element
Nearest_SkipFirst(hs, c) == NearestScan(hs, c, 2, Null, Infinity)

\* the value findNearestHospital passes to setNearestHospital and to
\* calculateRoute, with center c in its closure
Nearest(hs, c) == NearestScan(hs, c, 1, Null, Infinity)

\* variant: origin and destination exchanged
CalculateRoute_Exchanged(hospital, c) ==
    IF hospital = Null THEN <<>>
    ELSE <<[origin |-> hospital.location, destination |-> c,
            travelMode |-> "DRIVING"]>>

\* variant: no test of the destination
CalculateRoute_NoNullTest(hospital, c) ==
    <<[origin |-> c,
       destination |-> IF hospital = Null THEN Null ELSE hospital.location,
       travelMode |-> "DRIVING"]>>

\* calculateRoute up to its await, with center c in its closure: the
\* requests it passes to DirectionsService.route
CalculateRoute(hospital, c) ==
    IF hospital = Null THEN <<>>
    ELSE <<[origin |-> c, destination |-> hospital.location,
            travelMode |-> "DRIVING"]>>

\* results.routes[0].overview_path mapped to { lat, lng } points: the paths
\* the provider may answer a request with, straight or through a point of
\* the road
OverviewPaths(request) ==
    {<<request.origin, request.destination>>,
     <<request.origin, ViaPoint, request.destination>>}

\* what a fulfilled promise of DirectionsService.route may carry for a
\* request: the path of routes[0] and its legs[0]
RouteResponses(request) ==
    [overview_path : OverviewPaths(request), leg : Legs \cup LegsWithoutText]

\* legs[0].distance.text and legs[0].duration.text can be read
HasTexts(leg) == {"distance", "duration"} \subseteq DOMAIN leg

\* the name shown under "Nearest Hospital"
DisplayedName ==
    IF selectedHospital # Null THEN selectedHospital.name
    ELSE IF nearestHospital # Null /\ nearestHospital.name # ""
         THEN nearestHospital.name
         ELSE "Finding..."

\* indices of the requests appended to a log
Issued(log, requests) == (Len(log) + 1)..(Len(log) + Len(requests))

----------------------------------------------------------------------------
(* Initial state and handlers.                                             *)

Init ==
    /\ isLoaded = FALSE
    /\ map = Null
    /\ center = DefaultCenter
    /\ hospitals = <<>>
    /\ nearestHospital = Null
    /\ selectedHospital = Null
    /\ routePath = <<>>
    /\ info = NoInfo
    /\ geolocation \in {"pending", "unsupported"}
    /\ placesPending = {}
    /\ routePending = {}
    /\ searchLog = <<>>
    /\ routeLog = <<>>
    /\ hospitalsReq = 0
    /\ routePathReq = 0
    /\ infoReq = 0
    /\ pendingEffects = <<>>
    /\ event = Event("mount", 0, "", <<>>, <<>>)
    /\ measured = <<>>

\* The search effect is a passive effect: React runs it after the render
\* that changed map or center is committed, as a callback of its own, and
\* at the latest before it renders again.  The requests of the runs still
\* owed:
PendingRequests ==
    IF pendingEffects = <<>> THEN <<>>
    ELSE SearchEffect(pendingEffects[1].map, pendingEffects[1].center)

\* a render of App that changes neither map nor center, made after a
\* handler that left the callbacks in places outstanding: React first runs
\* the effect it still owes, and the render owes none
Render(places) ==
    /\ searchLog' = searchLog \o PendingRequests
    /\ placesPending' = places \cup Issued(searchLog, PendingRequests)
    /\ pendingEffects' = <<>>

\* the Maps script finishes loading: App renders GoogleMap
JsApiLoaded ==
    /\ ~isLoaded
    /\ isLoaded' = TRUE
    /\ Render(placesPending)
    /\ event' = Event("isLoaded", 0, "", <<>>, <<>>)
    /\ UNCHANGED <<map, center, hospitals, nearestHospital, selectedHospital,
                   routePath, info, geolocation, routePending, routeLog,
                   hospitalsReq, routePathReq, infoReq>>
    /\ UNCHANGED measured

\* onLoad={(map) => setMap(map)}: the render with the new map, before which
\* React runs the effect it still owes; the effect of the new render is owed
OnLoad ==
    /\ isLoaded
    /\ map = Null
    /\ map' = [null |-> FALSE]
    /\ LET requests == PendingRequests
       IN  /\ searchLog' = searchLog \o requests
           /\ placesPending' = placesPending \cup Issued(searchLog, requests)
    /\ pendingEffects' = <<[map |-> map', center |-> center]>>
    /\ event' = Event("onLoad", 0, "", <<>>, <<>>)
    /\ UNCHANGED <<isLoaded, center, hospitals, nearestHospital,
                   selectedHospital, routePath, info, geolocation,
                   routePending, routeLog, hospitalsReq, routePathReq, infoReq>>
    /\ UNCHANGED measured

\* getCurrentPosition's success callback: the render with the new center,
\* before which React runs the effect it still owes; the effect of the new
\* render is owed
GeolocationSuccess(position) ==
    /\ geolocation = "pending"
    /\ geolocation' = "success"
    /\ center' = position
    /\ LET requests == PendingRequests
       IN  /\ searchLog' = searchLog \o requests
           /\ placesPending' = placesPending \cup Issued(searchLog, requests)
    /\ pendingEffects' = <<[map |-> map, center |-> center']>>
    /\ event' = Event("geolocationSuccess", 0, "", <<>>, <<>>)
    /\ UNCHANGED <<isLoaded, map, hospitals, nearestHospital,
                   selectedHospital, routePath, info, routePending, routeLog,
                   hospitalsReq, routePathReq, infoReq>>
    /\ UNCHANGED measured

\* the search effect of the last render that changed map or center, run as
\* a callback of its own
RunSearchEffect ==
    /\ pendingEffects # <<>>
    /\ LET requests == PendingRequests
       IN  /\ searchLog' = searchLog \o requests
           /\ placesPending' = placesPending \cup Issued(searchLog, requests)
    /\ pendingEffects' = <<>>
    /\ event' = Event("searchEffect", 0, "", <<>>, <<>>)
    /\ UNCHANGED <<view, geolocation, routePending, routeLog, hospitalsReq,
                   routePathReq, infoReq>>
    /\ UNCHANGED measured

\* variant: the error callback moves the center
GeolocationError_MovesCenter ==
    /\ geolocation = "pending"
    /\ geolocation' = "error"
    /\ center' = [lat |-> 22695000, lng |-> 75915000]
    /\ event' = Event("geolocationError", 0, "", <<>>, <<>>)
    /\ UNCHANGED <<isLoaded, map, hospitals, nearestHospital,
                   selectedHospital, routePath, info, placesPending,
                   routePending, history>>
    /\ UNCHANGED <<pendingEffects, measured>>

\* getCurrentPosition's error callback: console.error only
GeolocationError ==
    /\ geolocation = "pending"
    /\ geolocation' = "error"
    /\ event' = Event("geolocationError", 0, "", <<>>, <<>>)
    /\ UNCHANGED <<view, placesPending, routePending, history>>
    /\ UNCHANGED <<pendingEffects, measured>>

\* variant: the callback reads the center of the current render
ClosureCenter_Current(id) == center

\* the center in the closure of the callback of search id: findHospitals,
\* findNearestHospital and calculateRoute of one render share their center
ClosureCenter(id) == searchLog[id].location

\* the callback of nearbySearch for request id, called with (results, status);
\* the center in its closure is the one findHospitals sent.  On OK it sets
\* hospitals and nearestHospital, so App renders; otherwise it sets nothing
NearbySearchCallback(id, results, status) ==
    /\ id \in placesPending
    /\ IF StatusOK(status)
       THEN \E nearest \in {Nearest(results, ClosureCenter(id))} :
              LET requests == CalculateRoute(nearest, ClosureCenter(id))
              IN  /\ hospitals' = results
                  /\ nearestHospital' = nearest
                  /\ routeLog' = routeLog \o requests
                  /\ routePending' =
                         routePending \cup Issued(routeLog, requests)
                  /\ hospitalsReq' = id
                  /\ Render(placesPending \ {id})
                  /\ event' = Event("nearbySearch", id, status, results,
                                    <<nearest>>)
       ELSE /\ placesPending' = placesPending \ {id}
            /\ event' = Event("nearbySearch", id, status, results, <<>>)
            /\ UNCHANGED <<hospitals, nearestHospital, routeLog, routePending,
                           hospitalsReq, searchLog, pendingEffects>>
    /\ UNCHANGED <<isLoaded, map, center, selectedHospital, routePath, info,
                   geolocation, routePathReq, infoReq>>
    /\ UNCHANGED measured

\* variant: the click routes to the clicked marker without selecting it
HandleHospitalClick_NoSelect(i) ==
    /\ i \in 1..Len(hospitals)
    /\ LET hospital == hospitals[i]
           requests == CalculateRoute(hospital, center)
       IN  /\ routeLog' = routeLog \o requests
           /\ routePending' = routePending \cup Issued(routeLog, requests)
           /\ event' = Event("click", 0, "", <<>>, <<hospital>>)
    /\ Render(placesPending)
    /\ UNCHANGED <<isLoaded, map, center, hospitals, nearestHospital,
                   selectedHospital, routePath, info, geolocation,
                   hospitalsReq, routePathReq, infoReq>>
    /\ UNCHANGED measured

\* onClick={() => handleHospitalClick(hospital)} of the marker of
\* hospitals[i]: it sets selectedHospital, so App renders
HandleHospitalClick(i) ==
    /\ i \in 1..Len(hospitals)
    /\ LET hospital == hospitals[i]
           requests == CalculateRoute(hospital, center)
       IN  /\ selectedHospital' = hospital
           /\ routeLog' = routeLog \o requests
           /\ routePending' = routePending \cup Issued(routeLog, requests)
           /\ event' = Event("click", 0, "", <<>>, <<hospital>>)
    /\ Render(placesPending)
    /\ UNCHANGED <<isLoaded, map, center, hospitals, nearestHospital,
                   routePath, info, geolocation, hospitalsReq, routePathReq,
                   infoReq>>
    /\ UNCHANGED measured

\* variant: a response is applied only if it answers the latest request
RouteFulfilled_IfLatest(id, response) ==
    /\ id \in routePending
    /\ routePending' = routePending \ {id}
    /\ IF id = Len(routeLog)
       THEN /\ routePath' = response.overview_path
            /\ routePathReq' = id
            /\ IF HasTexts(response.leg)
               THEN /\ info' = [distance |-> response.leg.distance,
                                duration |-> response.leg.duration]
                    /\ infoReq' = id
               ELSE UNCHANGED <<info, infoReq>>
       ELSE UNCHANGED <<routePath, info, routePathReq, infoReq>>
    /\ Render(placesPending)
    /\ event' = Event("routeFulfilled", id, "", <<response>>, <<>>)
    /\ UNCHANGED <<isLoaded, map, center, hospitals, nearestHospital,
                   selectedHospital, geolocation, routeLog, hospitalsReq>>
    /\ UNCHANGED measured

\* calculateRoute after its await, the promise of request id fulfilled with
\* response: setRoutePath, so App renders, then setInfo unless reading a
\* text of the leg throws
RouteFulfilled(id, response) ==
    /\ id \in routePending
    /\ routePending' = routePending \ {id}
    /\ routePath' = response.overview_path
    /\ routePathReq' = id
    /\ IF HasTexts(response.leg)
       THEN /\ info' = [distance |-> response.leg.distance,
                        duration |-> response.leg.duration]
            /\ infoReq' = id
       ELSE UNCHANGED <<info, infoReq>>
    /\ Render(placesPending)
    /\ event' = Event("routeFulfilled", id, "", <<response>>, <<>>)
    /\ UNCHANGED <<isLoaded, map, center, hospitals, nearestHospital,
                   selectedHospital, geolocation, routeLog, hospitalsReq>>
    /\ UNCHANGED measured

\* variant: the rejection is caught and the route and info are cleared
RouteRejected_Clears(id) ==
    /\ id \in routePending
    /\ routePending' = routePending \ {id}
    /\ routePath' = <<>>
    /\ info' = NoInfo
    /\ routePathReq' = 0
    /\ infoReq' = 0
    /\ event' = Event("routeRejected", id, "", <<>>, <<>>)
    /\ UNCHANGED <<isLoaded, map, center, hospitals, nearestHospital,
                   selectedHospital, geolocation, placesPending, searchLog,
                   routeLog, hospitalsReq>>
    /\ UNCHANGED <<pendingEffects, measured>>

\* the promise of request id rejected: the await throws, nothing catches it
RouteRejected(id) ==
    /\ id \in routePending
    /\ routePending' = routePending \ {id}
    /\ event' = Event("routeRejected", id, "", <<>>, <<>>)
    /\ UNCHANGED <<view, geolocation, placesPending, history>>
    /\ UNCHANGED <<pendingEffects, measured>>

\* what the Places Provider may answer: results with OK, none otherwise
PlacesResponses ==
    {<<results, OK>> : results \in ResultLists}
        \cup {<<(<<>>), status>> : status \in Statuses \ {OK}}

Next ==
    \/ JsApiLoaded
    \/ OnLoad
    \/ \E position \in GeoPositions : GeolocationSuccess(position)
    \/ RunSearchEffect
    \/ GeolocationError
    \/ \E id \in placesPending, response \in PlacesResponses :
           NearbySearchCallback(id, response[1], response[2])
    \/ \E i \in 1..Len(hospitals) : HandleHospitalClick(i)
    \/ \E id \in routePending :
           \E response \in RouteResponses(routeLog[id]) :
               RouteFulfilled(id, response)
    \/ \E id \in routePending : RouteRejected(id)

Spec == Init /\ [][Next]_vars

----------------------------------------------------------------------------
(* Nothing in App limits the marker clicks, so Spec has behaviours with    *)
(* any number of route requests.  The behaviours explored are those of     *)
(* Spec in which a marker is clicked only while fewer than MaxRoutes route *)
(* requests were made; every other step is taken as in Next.               *)

BoundedNext ==
    \/ JsApiLoaded
    \/ OnLoad
    \/ \E position \in GeoPositions : GeolocationSuccess(position)
    \/ RunSearchEffect
    \/ GeolocationError
    \/ \E id \in placesPending, response \in PlacesResponses :
           NearbySearchCallback(id, response[1], response[2])
    \/ \E i \in 1..Len(hospitals) :
           Len(routeLog) < MaxRoutes /\ HandleHospitalClick(i)
    \/ \E id \in routePending :
           \E response \in RouteResponses(routeLog[id]) :
               RouteFulfilled(id, response)
    \/ \E id \in routePending : RouteRejected(id)

BoundedSpec == Init /\ [][BoundedNext]_vars

----------------------------------------------------------------------------
(* The run in which nothing fails and the user clicks no marker: every     *)
(* Places response is OK with at least one place, every route promise is   *)
(* fulfilled, and each request is eventually answered.                     *)

SuccessInit == Init /\ geolocation = "pending"

SuccessNext ==
    \/ JsApiLoaded
    \/ OnLoad
    \/ \E position \in GeoPositions : GeolocationSuccess(position)
    \/ RunSearchEffect
    \/ \E id \in placesPending, results \in ResultLists \ {<<>>} :
           NearbySearchCallback(id, results, OK)
    \/ \E id \in routePending :
           \E response \in RouteResponses(routeLog[id]) :
               RouteFulfilled(id, response)

SuccessSpec == SuccessInit /\ [][SuccessNext]_vars /\ WF_vars(SuccessNext)

----------------------------------------------------------------------------
(* calculateDistance on its own, over points of the valid ranges.          *)

\* the points measured, in coordinate units: the default center and a
\* place near it, the poles, points of the equator and of the date line,
\* and pairs of exact antipodes
Points ==
    {DefaultCenter, HospitalA.location,
     [lat |-> -22681014, lng |-> -104120516],
     [lat |-> 90000000, lng |-> 0], [lat |-> -90000000, lng |-> 0],
     [lat |-> 0, lng |-> 0], [lat |-> 0, lng |-> 180000000],
     [lat |-> 0, lng |-> -180000000],
     [lat |-> 2000000, lng |-> 0], [lat |-> -2000000, lng |-> 180000000],
     [lat |-> 8000000, lng |-> 0], [lat |-> -8000000, lng |-> 180000000]}

\* calculateDistance called once on a and b, and once on b and a
MeasureDistance(a, b) ==
    /\ measured = <<>>
    /\ measured' = <<[a |-> a, b |-> b,
                      ab |-> CalculateDistance(a.lat, a.lng, b.lat, b.lng),
                      ba |-> CalculateDistance(b.lat, b.lng, a.lat, a.lng)]>>
    /\ UNCHANGED <<view, pending, history, pendingEffects, event>>

DistanceNext == \E a \in Points, b \in Points : MeasureDistance(a, b)

DistanceSpec == Init /\ [][DistanceNext]_vars

----------------------------------------------------------------------------
(* Properties.                                                             *)

Range(seq) == {seq[i] : i \in 1..Len(seq)}

\* the last request passed to DirectionsService.route
LastRouteRequest == routeLog[Len(routeLog)]

\* h is a member of hs no farther from c than any other member
IsClosest(h, hs, c) ==
    /\ h \in Range(hs)
    /\ \A other \in Range(hs) : LessOrEqual(Distance[c, h], Distance[c, other])

\* C1: when a route response has just been applied and no route request is
\* outstanding, the displayed route is the one of the last route request
\* issued (a response is applied only if it answers the latest request).
C1_RouteIsLastRequested ==
    (event.op = "routeFulfilled" /\ routePending = {})
        => /\ routePathReq = Len(routeLog)
           /\ routePath \in OverviewPaths(LastRouteRequest)

\* C2: a Places response older than the one that last wrote the candidate
\* list changes neither the candidate list nor the nearest hospital.
C2_StaleResponseIgnored ==
    [][(event'.op = "nearbySearch" /\ event'.req < hospitalsReq)
          => (hospitals' = hospitals /\ nearestHospital' = nearestHospital)]_vars

\* C3: whenever the candidate list is non-empty, nearestHospital is a member
\* of it whose distance to the center of the search that delivered the list
\* is at most the distance of every other member.
C3_NearestIsClosest ==
    hospitals # <<>>
        => IsClosest(nearestHospital, hospitals,
                     searchLog[hospitalsReq].location)

\* C3 witness: a list of several places was delivered and the nearest one
\* is not its first element, which is strictly farther.
C3_Witness ==
    /\ Len(hospitals) >= 2
    /\ nearestHospital # hospitals[1]
    /\ Less(Distance[searchLog[hospitalsReq].location, nearestHospital],
            Distance[searchLog[hospitalsReq].location, hospitals[1]])

\* C4: a Places response with status OK and a non-empty result list replaces
\* the candidate list by that list, sets nearestHospital to a closest member
\* of it, and issues exactly one route request, whose destination is the
\* location of that nearest hospital.
C4_OkResponseApplied ==
    [][(event'.op = "nearbySearch" /\ event'.status = OK
            /\ event'.results # <<>>)
          => /\ hospitals' = event'.results
             /\ IsClosest(nearestHospital', event'.results,
                          searchLog[event'.req].location)
             /\ Len(routeLog') = Len(routeLog) + 1
             /\ SubSeq(routeLog', 1, Len(routeLog)) = routeLog
             /\ routeLog'[Len(routeLog')].destination
                    = nearestHospital'.location
             /\ routeLog'[Len(routeLog')].origin
                    = searchLog[event'.req].location
             /\ routePending' = routePending \cup {Len(routeLog')}]_vars

\* C4 witness: an OK response with several places has just been handled and
\* its route request is outstanding.
C4_Witness ==
    /\ event.op = "nearbySearch"
    /\ event.status = OK
    /\ Len(event.results) >= 2
    /\ hospitals = event.results
    /\ Len(routeLog) \in routePending

\* the searches issued so far followed by those the effect still owes
DueLog == searchLog \o PendingRequests

\* C5: no search is issued or owed while the map is not ready; the step that
\* makes the map ready adds exactly one search, for the current center;
\* every later change of center adds exactly one further search, for the
\* new center, with radius 5000 and type hospital; no other step adds one,
\* and the searches are issued in the order in which they were added.
C5_SearchTrigger ==
    [][LET request == [location |-> center', radius |-> "5000",
                       type |-> <<"hospital">>]
       IN  /\ map' = Null => DueLog' = <<>>
           /\ (map = Null /\ map' # Null) => DueLog' = <<request>>
           /\ (map # Null /\ event'.op = "geolocationSuccess")
                 => DueLog' = Append(DueLog, request)
           /\ (map' = map /\ event'.op # "geolocationSuccess")
                 => DueLog' = DueLog
           /\ Len(searchLog') >= Len(searchLog)
           /\ searchLog' = SubSeq(DueLog', 1, Len(searchLog'))
           /\ Len(DueLog') <= Len(searchLog') + 1
           /\ placesPending' \ placesPending
                 = (Len(searchLog) + 1)..Len(searchLog')]_vars

\* C5 witness: the map became ready, then the center changed: two searches,
\* the first for the default center and the second for another center.
C5_Witness ==
    /\ pendingEffects = <<>>
    /\ Len(searchLog) = 2
    /\ searchLog[1].location = DefaultCenter
    /\ searchLog[2].location = center
    /\ center # DefaultCenter

\* C6: routePath and info come from the same route response, or both hold
\* their initial empty values: in no state has one been written from a
\* response and the other not.
C6_RouteAndInfoTogether ==
    /\ routePathReq = infoReq
    /\ routePathReq = 0 => (routePath = <<>> /\ info = NoInfo)
    /\ routePathReq # 0
          => (routePath \in OverviewPaths(routeLog[routePathReq])
              /\ info \in Legs)

\* C7: a click on the marker of a candidate hospital H makes H the selected
\* hospital and the displayed name H's name, issues exactly one route
\* request from the current center to H's location, and leaves the candidate
\* list and nearestHospital unchanged.
C7_MarkerClick ==
    [][event'.op = "click"
          => LET h == event'.calls[1]
             IN  /\ h \in Range(hospitals)
                 /\ selectedHospital' = h
                 /\ DisplayedName' = h.name
                 /\ routeLog' = Append(routeLog,
                                       [origin |-> center,
                                        destination |-> h.location,
                                        travelMode |-> "DRIVING"])
                 /\ routePending' = routePending \cup {Len(routeLog')}
                 /\ hospitals' = hospitals
                 /\ nearestHospital' = nearestHospital
                 /\ center' = center]_vars

\* C7 witness: after one Places response and a first click, the marker of
\* another hospital, which is not the nearest, has just been clicked: the
\* selection moved from the first marker to the second and the third route
\* request is the one of this click.
C7_Witness ==
    /\ event.op = "click"
    /\ Len(searchLog) = 1
    /\ Len(routeLog) = 3
    /\ routeLog[2].destination # routeLog[3].destination
    /\ nearestHospital # Null
    /\ selectedHospital # nearestHospital
    /\ selectedHospital = event.calls[1]
    /\ routeLog[3].destination = selectedHospital.location
    /\ DisplayedName # nearestHospital.name

\* C8: a Places response with a status other than OK changes none of the
\* candidate list, nearest hospital, selected hospital, route path and info,
\* issues no route request and no further search.
C8_NonOkIsNoOp ==
    [][(event'.op = "nearbySearch" /\ event'.status # OK)
          => UNCHANGED <<hospitals, nearestHospital, selectedHospital,
                         routePath, info, routeLog, routePending,
                         searchLog, pendingEffects, center>>]_vars

\* C8 witness: a non-OK response has just been handled while a candidate
\* list from an earlier response is displayed.
C8_Witness ==
    /\ event.op = "nearbySearch"
    /\ event.status = "ERROR"
    /\ hospitals # <<>>
    /\ nearestHospital # Null

\* C9: a call of calculateRoute with a null destination issues no route
\* request and leaves routePath and info unchanged.
C9_NullDestinationNoRequest ==
    [][event'.calls = <<Null>>
          => UNCHANGED <<routeLog, routePending, routePath, info,
                         routePathReq, infoReq>>]_vars

\* C9 witness: calculateRoute has just been called with null while a route
\* from an earlier response is displayed.
C9_Witness ==
    /\ event.calls = <<Null>>
    /\ routePath # <<>>
    /\ info # NoInfo

\* C10, as stated: on an OK response with an empty result list
\* nearestHospital becomes null, calculateRoute is not called and no route
\* request is issued.
C10_EmptyListNoCall ==
    [][(event'.op = "nearbySearch" /\ event'.status = OK
            /\ event'.results = <<>>)
          => (nearestHospital' = Null /\ event'.calls = <<>>
              /\ routeLog' = routeLog)]_vars

\* C10, amended: on an OK response with an empty result list nearestHospital
\* becomes null and calculateRoute is called once, with null, which issues
\* no route request.
C10_EmptyListNoRequest ==
    [][(event'.op = "nearbySearch" /\ event'.status = OK
            /\ event'.results = <<>>)
          => (nearestHospital' = Null /\ hospitals' = <<>>
              /\ event'.calls = <<Null>>
              /\ routeLog' = routeLog /\ routePending' = routePending)]_vars

\* C10 witness: an OK response with an empty list has just replaced a
\* non-empty candidate list.
C10_Witness ==
    /\ event.op = "nearbySearch"
    /\ event.status = OK
    /\ event.results = <<>>
    /\ hospitalsReq = 2
    /\ nearestHospital = Null
    /\ routeLog # <<>>

\* C11: a rejected route promise changes nothing but the set of outstanding
\* requests: route path, info and every other view state stay as they were
\* and no request is issued; route path and info change only when a route
\* promise is fulfilled.
C11_RejectionLeavesRoute ==
    [][/\ event'.op = "routeRejected"
            => /\ UNCHANGED <<view, geolocation, placesPending, history,
                              pendingEffects>>
               /\ routePending' = routePending \ {event'.req}
       /\ (routePath' # routePath \/ info' # info)
            => event'.op = "routeFulfilled"]_vars

\* C11 witness: a route request has just been rejected while the route of an
\* earlier response is displayed.
C11_Witness ==
    /\ event.op = "routeRejected"
    /\ routePathReq # 0
    /\ routePathReq # event.req
    /\ routePath \in OverviewPaths(routeLog[routePathReq])
    /\ routePending = {}

\* C12: once geolocation is unavailable or has failed, the center is the
\* default coordinate, every search issued is for it and every route request
\* starts from it; a geolocation request that has ended is never made again.
C12_FallbackToDefault ==
    [][/\ geolocation' \in {"unsupported", "error"}
            => /\ center' = DefaultCenter
               /\ \A i \in 1..Len(DueLog') :
                      DueLog'[i].location = DefaultCenter
               /\ \A i \in 1..Len(routeLog') :
                      routeLog'[i].origin = DefaultCenter
       /\ geolocation # "pending" => geolocation' = geolocation]_vars

\* C12 witness: geolocation failed, and a search and a route were made from
\* the default center.
C12_Witness ==
    /\ geolocation = "error"
    /\ center = DefaultCenter
    /\ searchLog # <<>>
    /\ routePathReq # 0
    /\ routePath[1] = DefaultCenter

\* C13: nearestHospital is the first element of the candidate list at the
\* minimum distance: every element before it is strictly farther from the
\* center of the search, every element after it is at least as far.
C13_FirstOfTheClosest ==
    hospitals # <<>>
        => \E i \in 1..Len(hospitals) :
              LET c == searchLog[hospitalsReq].location
              IN  /\ nearestHospital = hospitals[i]
                  /\ \A j \in 1..(i - 1) :
                        Less(Distance[c, hospitals[i]], Distance[c, hospitals[j]])
                  /\ \A j \in (i + 1)..Len(hospitals) :
                        LessOrEqual(Distance[c, hospitals[i]],
                                    Distance[c, hospitals[j]])

\* C13 witness: two candidates are at the same minimum distance and the one
\* that comes first in the list is the nearest hospital.
C13_Witness ==
    /\ Len(hospitals) >= 2
    /\ \E i, j \in 1..Len(hospitals) :
          /\ i < j
          /\ nearestHospital = hospitals[i]
          /\ StrictEquals(
                 Distance[searchLog[hospitalsReq].location, hospitals[i]],
                 Distance[searchLog[hospitalsReq].location, hospitals[j]])
          /\ \A k \in 1..Len(hospitals) :
                 LessOrEqual(
                     Distance[searchLog[hospitalsReq].location, hospitals[i]],
                     Distance[searchLog[hospitalsReq].location, hospitals[k]])

\* C14: calculateDistance gives equal results on (A, B) and on (B, A), and 0
\* on (A, A).
C14_SymmetricAndZero ==
    \A i \in 1..Len(measured) :
        /\ StrictEquals(measured[i].ab, measured[i].ba)
        /\ measured[i].a = measured[i].b
              => StrictEquals(measured[i].ab, FromInt(0))

DisplayedHospital ==
    IF selectedHospital # Null THEN selectedHospital ELSE nearestHospital

\* C16: after a marker click, when no route request is outstanding and the
\* displayed route is the one of the last route request, the displayed name
\* is the name of the hospital at the end of the displayed route.
C16_NameAgreesWithRoute ==
    (selectedHospital # Null /\ routePending = {} /\ routePathReq # 0
        /\ routePathReq = Len(routeLog))
        => /\ DisplayedHospital # Null
           /\ DisplayedName = DisplayedHospital.name
           /\ routePath[Len(routePath)] = DisplayedHospital.location

\* C17: an OK Places response is processed against the center of its search:
\* nearestHospital is a closest result to that center and the route request
\* starts from it; the route request of a marker click starts from the
\* center at the time of the click.
C17_IssuingCenter ==
    [][/\ (event'.op = "nearbySearch" /\ event'.status = OK
              /\ event'.results # <<>>)
            => /\ IsClosest(nearestHospital', hospitals',
                            searchLog[event'.req].location)
               /\ Len(routeLog') = Len(routeLog) + 1
               /\ routeLog'[Len(routeLog')].origin
                      = searchLog[event'.req].location
       /\ event'.op = "click"
            => /\ Len(routeLog') = Len(routeLog) + 1
               /\ routeLog'[Len(routeLog')].origin = center]_vars

\* C17 witness: the searches for both centers have returned places, the
\* one for the default center last and after the center changed: the
\* nearest hospital is not a closest candidate to the current center and
\* its route request starts from the default center; then a marker has
\* been clicked, and the route request of the click starts from the
\* current center.
C17_Witness ==
    /\ event.op = "click"
    /\ Len(searchLog) = 2
    /\ placesPending = {}
    /\ hospitalsReq = 1
    /\ searchLog[1].location = DefaultCenter
    /\ center # DefaultCenter
    /\ ~IsClosest(nearestHospital, hospitals, center)
    /\ Len(routeLog) = 3
    /\ routeLog[2].origin = DefaultCenter
    /\ routeLog[2].destination = nearestHospital.location
    /\ routeLog[3].origin = center

\* C18: nearestHospital is null exactly when the candidate list is empty,
\* and otherwise a member of the candidate list.
C18_NearestInCandidates ==
    /\ nearestHospital = Null <=> hospitals = <<>>
    /\ nearestHospital # Null => nearestHospital \in Range(hospitals)

\* C18 witness: a second OK response has replaced the candidate list and
\* the nearest hospital together.
C18_Witness ==
    /\ hospitalsReq = 2
    /\ Len(hospitals) >= 2
    /\ nearestHospital \in Range(hospitals)
    /\ placesPending = {}

\* C19: when the map is ready, geolocation has succeeded, every search due
\* has been issued and every request has been answered, the candidate list
\* is the result of the search for the geolocated center, nearestHospital
\* is a closest candidate to that center and the displayed route runs from
\* that center to that hospital.
C19_Converges ==
    (map # Null /\ geolocation = "success" /\ pendingEffects = <<>>
        /\ placesPending = {} /\ routePending = {})
        => /\ hospitalsReq = Len(searchLog)
           /\ searchLog[hospitalsReq].location = center
           /\ IsClosest(nearestHospital, hospitals, center)
           /\ routePathReq # 0
           /\ routeLog[routePathReq].origin = center
           /\ routeLog[routePathReq].destination = nearestHospital.location
           /\ routePath \in OverviewPaths(routeLog[routePathReq])

====
